---- MODULE Spec2Model ----
(***************************************************************************)
(* Model of the document-analysis pipeline of demoagent:                   *)
(*   lib/document-parser  parseDocument, parsePDF, parseExcel, parseCSV,   *)
(*                        generateAnalysisPrompt                           *)
(* Strings are TLA+ strings; the JavaScript string operations the code     *)
(* uses (split/pop, toLowerCase, trim, join, includes, endsWith, toFixed)  *)
(* are operators computed character by character.                          *)
(***************************************************************************)
EXTENDS Integers, Sequences, FiniteSets, TLC

VARIABLES file, pc, extractor, fetches, timer, aborted, response, payload,
          workbook, results, result, userMessage, prompt

\* the chat request handler (app/api/chat): the message of the request and
\* whether it carries a file, the handler's position, its HTTP answer, the
\* calls made to the text-completion service
VARIABLES request, rpc, http, completions

\* the chat component: its four pieces of React state, the handleSubmit
\* calls that wait for their request, and what became of the last submit
VARIABLES messages, isLoading, selectedFile, showFileUpload, calls, lastSubmit

parserVars == <<file, pc, extractor, fetches, timer, aborted, response, payload,
                workbook, results, result, userMessage, prompt>>

routeVars == <<request, rpc, http, completions>>

uiVars == <<messages, isLoading, selectedFile, showFileUpload, calls, lastSubmit>>

vars == <<parserVars, routeVars, uiVars>>

(***************************************************************************)
(* Bounds of the model.                                                    *)
(***************************************************************************)
\* data rows (after the first row) of the longest sheet
MaxDataRows == 15
\* sheets of the largest workbook
MaxSheets == 2
\* records of the longest CSV input
MaxRecords == 25

(***************************************************************************)
(* JavaScript string operations.                                           *)
(***************************************************************************)
CharAt(s, i) == SubSeq(s, i, i)

UpperCaseLetters == "ABCDEFGHIJKLMNOPQRSTUVWXYZ"
LowerCaseLetters == "abcdefghijklmnopqrstuvwxyz"

LowerChar(c) ==
  IF \E i \in 1..Len(UpperCaseLetters) : CharAt(UpperCaseLetters, i) = c
  THEN CharAt(LowerCaseLetters,
              CHOOSE i \in 1..Len(UpperCaseLetters) : CharAt(UpperCaseLetters, i) = c)
  ELSE c

RECURSIVE ToLowerCase(_)
\* String.prototype.toLowerCase
ToLowerCase(s) ==
  IF s = "" THEN ""
  ELSE LowerChar(CharAt(s, 1)) \o ToLowerCase(SubSeq(s, 2, Len(s)))

\* String.prototype.includes
Includes(s, sub) ==
  \E i \in 1..(Len(s) - Len(sub) + 1) : SubSeq(s, i, i + Len(sub) - 1) = sub

\* String.prototype.endsWith
EndsWith(s, suffix) ==
  /\ Len(suffix) <= Len(s)
  /\ SubSeq(s, Len(s) - Len(suffix) + 1, Len(s)) = suffix

\* fileName.split('.').pop(): the text after the last '.', the whole string
\* when it holds no '.'
SplitPop(s) ==
  LET dots == {i \in 1..Len(s) : CharAt(s, i) = "."}
  IN  IF dots = {} THEN s
      ELSE LET last == CHOOSE i \in dots : \A j \in dots : j <= i
           IN  SubSeq(s, last + 1, Len(s))

IsWhiteSpace(c) == c \in {" ", "\n", "\t", "\r"}

\* String.prototype.trim
Trim(s) ==
  LET solid == {i \in 1..Len(s) : ~IsWhiteSpace(CharAt(s, i))}
  IN  IF solid = {} THEN ""
      ELSE LET first == CHOOSE i \in solid : \A j \in solid : i <= j
               last  == CHOOSE i \in solid : \A j \in solid : j <= i
           IN  SubSeq(s, first, last)

RECURSIVE Join(_, _)
\* Array.prototype.join over elements already converted to strings
Join(strs, sep) ==
  IF Len(strs) = 0 THEN ""
  ELSE IF Len(strs) = 1 THEN strs[1]
  ELSE strs[1] \o sep \o Join(Tail(strs), sep)

RECURSIVE Concat(_)
\* repeated `content += ...`
Concat(strs) ==
  IF Len(strs) = 0 THEN "" ELSE strs[1] \o Concat(Tail(strs))

\* (bytes / 1024).toFixed(2): bytes / 1024 is exact in binary floating point,
\* toFixed rounds the exact value to hundredths, a tie going to the larger one
ToFixed2KB(bytes) ==
  LET h == (bytes * 100 + 512) \div 1024
  IN  ToString(h \div 100) \o "." \o ToString((h % 100) \div 10) \o ToString(h % 10)

(***************************************************************************)
(* Inputs: file descriptors (name, declared MIME type, size in bytes).     *)
(***************************************************************************)
FileNames ==
  {"report.pdf", "REPORT.Pdf", "pdf", "Document Analysis Request.pdf",
   "data.xlsx", "old.XLS", "rows.csv", ".CSV",
   "notes.txt", "archive.pdf.zip", "noext.", "README"}

FileTypes == {"application/pdf", "text/csv"}

FileSizes == {128, 2500}

Files == [name : FileNames, type : FileTypes, size : FileSizes]

(***************************************************************************)
(* ParsedDocument: content and metadata; `present` holds the names of the  *)
(* optional metadata fields the object literal sets.                       *)
(***************************************************************************)
OptionalFields == {"pageCount", "sheetNames", "rowCount", "columnCount"}

ParsedDocument(content, fileName, fileType, fileSize, present, pageCount, sheetNames, rowCount, columnCount) ==
  [content  |-> content,
   metadata |-> [fileName |-> fileName, fileType |-> fileType,
                 fileSize |-> fileSize, present |-> present,
                 pageCount |-> pageCount, sheetNames |-> sheetNames,
                 rowCount |-> rowCount, columnCount |-> columnCount]]

NoDocument == ParsedDocument("", "", "", 0, {}, 0, <<>>, 0, 0)

\* outcome of a call: still running, returned a document, or raised an error
Running       == [status |-> "none", doc |-> NoDocument, message |-> ""]
Returned(doc) == [status |-> "returned", doc |-> doc, message |-> ""]
Raised(msg)   == [status |-> "raised", doc |-> NoDocument, message |-> msg]

(***************************************************************************)
(* The text-extraction service's response body as response.json() reads    *)
(* it: the read fails, or yields null, or yields an object some of whose   *)
(* fields content, pageCount, error are set.                               *)
(***************************************************************************)
Body(kind, fields, content, pageCount, error) ==
  [kind |-> kind, fields |-> fields, content |-> content,
   pageCount |-> pageCount, error |-> error]

NoBody == Body("none", {}, "", 0, "")

ShortText == "Quarterly results: revenue up 4%."

\* an extracted text of more than 200 characters
LongText ==
  "Annual report. " \o
  "Revenue grew in every region during the year while costs stayed flat; " \o
  "the board proposes an unchanged dividend and expects moderate growth " \o
  "in the coming year, driven by the new product line and by the opening " \o
  "of two further sites in the second half."

Bodies ==
  {Body("unreadable", {}, "", 0, ""),
   Body("null", {}, "", 0, ""),
   Body("object", {}, "", 0, ""),
   Body("object", {"content", "pageCount"}, "", 0, ""),
   Body("object", {"content", "pageCount"}, ShortText, 3, ""),
   Body("object", {"content", "pageCount"}, LongText, 12, ""),
   Body("object", {"content"}, LongText, 0, ""),
   Body("object", {"error"}, "", 0, "Failed to extract text from PDF"),
   Body("object", {"error"}, "", 0, "")}

(***************************************************************************)
(* parsePDF: the two results it can build.                                 *)
(***************************************************************************)
\* content when the service's payload carries no text
PdfNoTextContent(fileName) ==
  "PDF file: " \o fileName \o "\n\nNote: Could not extract text content from this PDF."

\* PdfFallbackContent with the size printed in bytes, not in KB
PdfFallbackContentInBytes(fileName, fileType, fileSize) ==
  "PDF file: " \o fileName \o "\n\nFile Information:\n- File Name: " \o fileName \o
  "\n- File Type: " \o fileType \o
  "\n- File Size: " \o ToString(fileSize) \o " bytes" \o
  "\n- Document Format: PDF\n\nNote: Could not extract text content from this PDF file. " \o
  "Please try uploading a CSV or Excel file for full content analysis, or describe " \o
  "what you're looking for in this PDF and I can provide guidance."

\* content of the metadata-only fallback (the catch block)
PdfFallbackContent(fileName, fileType, fileSize) ==
  "PDF file: " \o fileName \o "\n\nFile Information:\n- File Name: " \o fileName \o
  "\n- File Type: " \o fileType \o
  "\n- File Size: " \o ToFixed2KB(fileSize) \o " KB" \o
  "\n- Document Format: PDF\n\nNote: Could not extract text content from this PDF file. " \o
  "Please try uploading a CSV or Excel file for full content analysis, or describe " \o
  "what you're looking for in this PDF and I can provide guidance."

\* PdfFallback with a metadata that leaves the type empty
PdfFallbackWithoutType(f) ==
  ParsedDocument(PdfFallbackContent(f.name, f.type, f.size),
                 f.name, "", f.size, {"pageCount"}, 1, <<>>, 0, 0)

PdfFallback(f) ==
  ParsedDocument(PdfFallbackContent(f.name, f.type, f.size),
                 f.name, f.type, f.size, {"pageCount"}, 1, <<>>, 0, 0)

\* the return statement of the try block: data.content || note, data.pageCount || 1
PdfExtracted(f, data) ==
  ParsedDocument(IF "content" \in data.fields /\ data.content # ""
                   THEN data.content ELSE PdfNoTextContent(f.name),
                 f.name, f.type, f.size, {"pageCount"},
                 IF "pageCount" \in data.fields /\ data.pageCount # 0
                   THEN data.pageCount ELSE 1,
                 <<>>, 0, 0)

\* what parsePDF returns once the body of a received response has been read:
\* a non-success status throws (from json() or from the throw statement), an
\* unreadable body makes json() throw, a null body makes data.content throw
PdfAfterBody(f, ok, data) ==
  IF ~ok \/ data.kind \in {"unreadable", "null"}
  THEN PdfFallback(f)
  ELSE PdfExtracted(f, data)

(***************************************************************************)
(* Workbooks as XLSX.read and sheet_to_json(header: 1) give them: a        *)
(* sequence of sheets, each a name and its rows, each row a sequence of    *)
(* cells.                                                                  *)
(***************************************************************************)
Undefined  == [t |-> "undefined", s |-> "", n |-> 0]
Null       == [t |-> "null", s |-> "", n |-> 0]
Str(s)     == [t |-> "string", s |-> s, n |-> 0]
Num(n)     == [t |-> "number", s |-> "", n |-> n]

\* String(cell) as join applies it: undefined and null give ''
CellString(c) ==
  IF c.t = "string" THEN c.s ELSE IF c.t = "number" THEN ToString(c.n) ELSE ""

\* cell !== undefined && cell !== null && cell !== ''
CellFilled(c) == c.t \notin {"undefined", "null"} /\ ~(c.t = "string" /\ c.s = "")

JoinCells(row, sep) == Join([i \in 1..Len(row) |-> CellString(row[i])], sep)

SheetShapes ==
  {[hdr |-> "absent", rows |-> 0, blanks |-> "none"]} \cup
  [hdr : {"blank", "named"}, rows : 0..MaxDataRows, blanks : {"none", "second", "odd"}]

\* the shapes of the sheets after the first one
ExtraShapes ==
  {[hdr |-> "absent", rows |-> 0, blanks |-> "none"],
   [hdr |-> "named", rows |-> MaxDataRows, blanks |-> "second"]}

RowTag(k, i) == "s" \o ToString(k) \o "r" \o ToString(i)

\* row i after the first row of sheet k
ShapeRow(k, i, shape) ==
  IF (shape.blanks = "second" /\ i = 2) \/ (shape.blanks = "odd" /\ i % 2 = 1)
  THEN CASE i % 3 = 0 -> <<>>
         [] i % 3 = 1 -> <<Str("")>>
         [] OTHER     -> <<Null, Undefined>>
  ELSE CASE i % 4 = 0 -> <<Num(0), Str(RowTag(k, i))>>
         [] i % 4 = 1 -> <<Str(RowTag(k, i)), Num(i)>>
         [] i % 4 = 2 -> <<Undefined, Str(RowTag(k, i)), Str("")>>
         [] OTHER     -> <<Str(RowTag(k, i))>>

ShapeSheet(k, shape) ==
  [name |-> "Sheet" \o ToString(k),
   rows |-> IF shape.hdr = "absent" THEN <<>>
            ELSE <<IF shape.hdr = "named" THEN <<Str("id"), Str("value"), Str("note")>>
                   ELSE <<Undefined, Str("")>>>>
                 \o [i \in 1..shape.rows |-> ShapeRow(k, i, shape)]]

SeqsUpTo(S, n) == UNION {[1..m -> S] : m \in 0..n}

Workbooks ==
  {<<>>} \cup
  {[k \in 1..(1 + Len(rest)) |->
      ShapeSheet(k, IF k = 1 THEN first ELSE rest[k - 1])] :
     first \in SheetShapes, rest \in SeqsUpTo(ExtraShapes, MaxSheets - 1)}

(***************************************************************************)
(* parseExcel                                                              *)
(***************************************************************************)
\* rows of a sheet rendered into content (index < 10, dataRows.length > 10)
SheetPreviewRows == 10

RowFilled(row) == \E i \in 1..Len(row) : CellFilled(row[i])

\* DataRows without the filter: blank rows are kept
DataRowsUnfiltered(sheet) == Tail(sheet.rows)

\* jsonData.slice(1).filter(row => row.some(cell filled))
DataRows(sheet) == SelectSeq(Tail(sheet.rows), RowFilled)

Min(a, b) == IF a <= b THEN a ELSE b
Max(a, b) == IF a >= b THEN a ELSE b

\* what one iteration of the sheet loop appends to content
SheetText(sheet) ==
  "\n\n=== Sheet: " \o sheet.name \o " ===\n" \o
  IF Len(sheet.rows) > 0
  THEN LET headers  == sheet.rows[1]
           dataRows == DataRows(sheet)
           n        == Len(dataRows)
       IN  (IF RowFilled(headers)
              THEN "Headers: " \o JoinCells(headers, " | ") \o "\n" ELSE "") \o
           "Data (" \o ToString(n) \o " rows):\n" \o
           Concat([i \in 1..Min(n, SheetPreviewRows) |->
                     "Row " \o ToString(i) \o ": " \o JoinCells(dataRows[i], " | ") \o "\n"]) \o
           (IF n > SheetPreviewRows
              THEN "... and " \o ToString(n - SheetPreviewRows) \o " more rows\n" ELSE "")
  ELSE ""

RECURSIVE TotalRows(_)
\* totalRows += dataRows.length, over the sheets that have rows
TotalRows(sheets) ==
  IF Len(sheets) = 0 THEN 0
  ELSE (IF Len(sheets[1].rows) > 0 THEN Len(DataRows(sheets[1])) ELSE 0)
       + TotalRows(Tail(sheets))

RECURSIVE TotalColumns(_)
\* totalColumns = Math.max(totalColumns, headers.length)
TotalColumns(sheets) ==
  IF Len(sheets) = 0 THEN 0
  ELSE Max(IF Len(sheets[1].rows) > 0 THEN Len(sheets[1].rows[1]) ELSE 0,
           TotalColumns(Tail(sheets)))

parseExcel(f, sheets) ==
  ParsedDocument(Trim(Concat([k \in 1..Len(sheets) |-> SheetText(sheets[k])])),
                 f.name, f.type, f.size,
                 {"sheetNames", "rowCount", "columnCount"},
                 0, [k \in 1..Len(sheets) |-> sheets[k].name],
                 TotalRows(sheets), TotalColumns(sheets))

(***************************************************************************)
(* parseCSV. A record of csv-parser is an object: here the sequence of its *)
(* <<key, value>> pairs in insertion order.                                *)
(***************************************************************************)
\* records rendered into content (results.slice(0, 20), results.length > 20)
CsvPreviewRows == 20

\* Object.keys(record)
Keys(record) == [j \in 1..Len(record) |-> record[j][1]]

\* row[header] || ''
FieldOrEmpty(record, header) ==
  IF \E j \in 1..Len(record) : record[j][1] = header
  THEN record[CHOOSE j \in 1..Len(record) : record[j][1] = header][2]
  ELSE ""

\* CsvContent with the remainder line written from 20 records on
CsvContentOffByOne(records) ==
  IF Len(records) > 0
  THEN LET headers == Keys(records[1])
           n       == Len(records)
       IN  "Headers: " \o Join(headers, " | ") \o "\n" \o
           "Data (" \o ToString(n) \o " rows):\n" \o
           Concat([i \in 1..Min(n, CsvPreviewRows) |->
                     "Row " \o ToString(i) \o ": " \o
                     Join([j \in 1..Len(headers) |-> FieldOrEmpty(records[i], headers[j])],
                          " | ") \o "\n"]) \o
           (IF n >= CsvPreviewRows
              THEN "... and " \o ToString(n - CsvPreviewRows) \o " more rows\n" ELSE "")
  ELSE ""

CsvContent(records) ==
  IF Len(records) > 0
  THEN LET headers == Keys(records[1])
           n       == Len(records)
       IN  "Headers: " \o Join(headers, " | ") \o "\n" \o
           "Data (" \o ToString(n) \o " rows):\n" \o
           Concat([i \in 1..Min(n, CsvPreviewRows) |->
                     "Row " \o ToString(i) \o ": " \o
                     Join([j \in 1..Len(headers) |-> FieldOrEmpty(records[i], headers[j])],
                          " | ") \o "\n"]) \o
           (IF n > CsvPreviewRows
              THEN "... and " \o ToString(n - CsvPreviewRows) \o " more rows\n" ELSE "")
  ELSE ""

parseCSV(f, records) ==
  ParsedDocument(Trim(CsvContent(records)), f.name, f.type, f.size,
                 {"rowCount", "columnCount"},
                 0, <<>>, Len(records),
                 IF Len(records) > 0 THEN Len(Keys(records[1])) ELSE 0)

CsvHeaderRows == {<<"a", "b", "c">>, <<"id">>}

CsvPatterns == {"full", "ragged", "widefirst"}

\* record i of an input: every field set; or (ragged) some records lacking
\* their last field, holding an empty field or an extra one; or (widefirst)
\* the first record holding one field more than the header row names
CsvRecord(headers, i, pattern) ==
  LET full == [j \in 1..Len(headers) |->
                 <<headers[j], "v" \o ToString(i) \o headers[j]>>]
  IN  CASE pattern = "ragged" /\ i % 5 = 0 -> full \o << <<"_9", "extra">> >>
        [] pattern = "ragged" /\ i % 3 = 0 -> [full EXCEPT ![1] = <<headers[1], "">>]
        [] pattern = "ragged" /\ i % 2 = 0 /\ Len(headers) > 1 ->
             SubSeq(full, 1, Len(headers) - 1)
        [] pattern = "widefirst" /\ i = 1 -> full \o << <<"_9", "v1x">> >>
        [] OTHER -> full

CsvInputs ==
  {[i \in 1..n |-> CsvRecord(h, i, p)] :
     h \in CsvHeaderRows, n \in 0..MaxRecords, p \in CsvPatterns}

(***************************************************************************)
(* generateAnalysisPrompt                                                  *)
(***************************************************************************)
\* content.length > 200
MinContentLength == 200

\* the text hasContent looks for
PlaceholderMarker == "Document Analysis Request"

\* the optional second argument: not passed (undefined), or a string
NoMessage    == [given |-> FALSE, text |-> ""]
Message(t)   == [given |-> TRUE, text |-> t]
UserMessages == {NoMessage, Message(""), Message("What was the revenue in \"Q3\"?")}

\* Truthy as the test userMessage !== undefined would have it
TruthyWhenGiven(um) == um.given

\* JavaScript truthiness of the argument: if (userMessage)
Truthy(um) == um.given /\ um.text # ""

isPDF(metadata) ==
  \/ metadata.fileType = "application/pdf"
  \/ EndsWith(ToLowerCase(metadata.fileName), ".pdf")

hasContent(content) ==
  Len(content) > MinContentLength /\ ~Includes(content, PlaceholderMarker)

Preamble ==
  "You are analyzing a document to answer a user's question. Please focus on " \o
  "answering their specific question using the document content.\n\n"

\* the metadata block: a line per optional field whose value is truthy
MetadataBlock(metadata) ==
  "Document Information:\n" \o
  "- File: " \o metadata.fileName \o "\n" \o
  "- Type: " \o metadata.fileType \o "\n" \o
  "- Size: " \o ToFixed2KB(metadata.fileSize) \o " KB\n" \o
  (IF "pageCount" \in metadata.present /\ metadata.pageCount # 0
     THEN "- Pages: " \o ToString(metadata.pageCount) \o "\n" ELSE "") \o
  (IF "sheetNames" \in metadata.present
     THEN "- Sheets: " \o Join(metadata.sheetNames, ", ") \o "\n" ELSE "") \o
  (IF "rowCount" \in metadata.present /\ metadata.rowCount # 0
     THEN "- Rows: " \o ToString(metadata.rowCount) \o "\n" ELSE "") \o
  (IF "columnCount" \in metadata.present /\ metadata.columnCount # 0
     THEN "- Columns: " \o ToString(metadata.columnCount) \o "\n" ELSE "")

ContentBlock(content) == "\nDocument Content:\n" \o content \o "\n\n"

QuestionInstruction ==
  "Please answer the user's question using the document content above. If the " \o
  "document doesn't contain enough information to fully answer their question, " \o
  "let them know what information is available and suggest what additional " \o
  "information might be needed.\n\n"

ComprehensiveInstruction ==
  "The user has uploaded this document without a specific question. " \o
  "Please provide a comprehensive analysis.\n\n"

InstructionBlock(um) ==
  IF Truthy(um)
  THEN "USER'S QUESTION: \"" \o um.text \o "\"\n\n" \o QuestionInstruction
  ELSE ComprehensiveInstruction

PdfGuidance ==
  "Since this is a PDF with limited text extraction, please:\n" \o
  "1. Answer the user's question based on available metadata and any extracted content\n" \o
  "2. Explain what types of information could be found in this PDF\n" \o
  "3. Suggest alternative ways to get the information they need\n"

GenericGuidance ==
  "Please provide a helpful response that:\n" \o
  "1. Directly answers the user's question using the document content\n" \o
  "2. References specific text, data, or sections from the document when relevant\n" \o
  "3. Highlights key insights, patterns, or trends found in the document\n" \o
  "4. Provides actionable recommendations based on the document findings\n" \o
  "5. If the document doesn't contain enough information to fully answer the " \o
  "question, explain what information is available and what additional details " \o
  "might be needed\n"

GuidanceBlock(doc) ==
  IF isPDF(doc.metadata) /\ ~hasContent(doc.content) THEN PdfGuidance ELSE GenericGuidance

generateAnalysisPrompt(doc, um) ==
  Preamble \o MetadataBlock(doc.metadata) \o ContentBlock(doc.content) \o
  InstructionBlock(um) \o GuidanceBlock(doc)

(***************************************************************************)
(* parseDocument and the steps of a PDF extraction.                        *)
(***************************************************************************)
\* Extension without the lower-casing
ExtensionCaseSensitive(fileName) == SplitPop(fileName)

\* fileName.split('.').pop()?.toLowerCase()
Extension(fileName) == ToLowerCase(SplitPop(fileName))

\* the catch block of parseDocument
ParsingError(message) == Raised("Failed to parse document: " \o message)

\* messages of the errors XLSX.read and the csv stream raise
LibraryErrors == {"File is password-protected", "Unsupported file 80"}

NoResponse == [arrived |-> FALSE, ok |-> FALSE]

\* the answer of the chat request handler: HTTP status (0: none yet), the
\* error field and the response field of its JSON body
Answer(status, error, text) == [status |-> status, error |-> error, response |-> text]

NoAnswer == Answer(0, "", "")

\* no chat request is being handled
RouteIdle ==
  /\ request = [message |-> NoMessage, hasFile |-> TRUE]
  /\ rpc = "off"
  /\ http = NoAnswer
  /\ completions = 0

\* the chat component as first rendered (the useState initial values)
UiIdle ==
  /\ messages = <<>>
  /\ isLoading = FALSE
  /\ selectedFile = ""
  /\ showFileUpload = FALSE
  /\ calls = <<>>
  /\ lastSubmit = "none"

Init ==
  /\ file \in Files
  /\ pc = "start"
  /\ extractor = "none"
  /\ fetches = 0
  /\ timer = "unset"
  /\ aborted = FALSE
  /\ response = NoResponse
  /\ payload = NoBody
  /\ workbook = <<>>
  /\ results = <<>>
  /\ result = Running
  /\ userMessage = NoMessage
  /\ prompt = ""
  /\ RouteIdle
  /\ UiIdle

\* default: throw new Error(`Unsupported file type: ${extension}`), wrapped
ParseUnsupported ==
  /\ pc = "start"
  /\ Extension(file.name) \notin {"pdf", "xlsx", "xls", "csv"}
  /\ result' = ParsingError("Unsupported file type: " \o Extension(file.name))
  /\ pc' = "failed"
  /\ UNCHANGED <<file, extractor, fetches, timer, aborted, response, payload,
                 workbook, results, userMessage, prompt>>
  /\ UNCHANGED <<routeVars, uiVars>>

\* case 'xlsx', 'xls': parseExcel on the workbook XLSX.read returns
ParseExcel ==
  /\ pc = "start"
  /\ Extension(file.name) \in {"xlsx", "xls"}
  /\ \E sheets \in Workbooks :
       /\ workbook' = sheets
       /\ result' = Returned(parseExcel(file, sheets))
  /\ extractor' = "excel"
  /\ pc' = "parsed"
  /\ UNCHANGED <<file, fetches, timer, aborted, response, payload,
                 results, userMessage, prompt>>
  /\ UNCHANGED <<routeVars, uiVars>>

\* case 'xlsx', 'xls': XLSX.read throws
ParseExcelFails ==
  /\ pc = "start"
  /\ Extension(file.name) \in {"xlsx", "xls"}
  /\ \E msg \in LibraryErrors : result' = ParsingError(msg)
  /\ extractor' = "excel"
  /\ pc' = "failed"
  /\ UNCHANGED <<file, fetches, timer, aborted, response, payload,
                 workbook, results, userMessage, prompt>>
  /\ UNCHANGED <<routeVars, uiVars>>

\* case 'csv': the stream ends after emitting the records
ParseCSV ==
  /\ pc = "start"
  /\ Extension(file.name) = "csv"
  /\ \E records \in CsvInputs :
       /\ results' = records
       /\ result' = Returned(parseCSV(file, records))
  /\ extractor' = "csv"
  /\ pc' = "parsed"
  /\ UNCHANGED <<file, fetches, timer, aborted, response, payload,
                 workbook, userMessage, prompt>>
  /\ UNCHANGED <<routeVars, uiVars>>

\* case 'csv': the stream emits 'error'
ParseCSVFails ==
  /\ pc = "start"
  /\ Extension(file.name) = "csv"
  /\ \E msg \in LibraryErrors : result' = ParsingError(msg)
  /\ extractor' = "csv"
  /\ pc' = "failed"
  /\ UNCHANGED <<file, fetches, timer, aborted, response, payload,
                 workbook, results, userMessage, prompt>>
  /\ UNCHANGED <<routeVars, uiVars>>

\* case 'pdf': parsePDF arms the 30 s timer, then issues the request
ParsePDFFetch ==
  /\ pc = "start"
  /\ Extension(file.name) = "pdf"
  /\ extractor' = "pdf"
  /\ timer' = "armed"
  /\ fetches' = fetches + 1
  /\ pc' = "pdf_fetch"
  /\ UNCHANGED <<file, aborted, response, payload, workbook, results, result,
                 userMessage, prompt>>
  /\ UNCHANGED <<routeVars, uiVars>>

\* the response's status line and headers arrive: fetch resolves and
\* clearTimeout(timeoutId) runs
FetchResolves ==
  /\ pc = "pdf_fetch"
  /\ \E ok \in BOOLEAN : response' = [arrived |-> TRUE, ok |-> ok]
  /\ timer' = "cleared"
  /\ pc' = "pdf_body"
  /\ UNCHANGED <<file, extractor, fetches, aborted, payload, workbook, results,
                 result, userMessage, prompt>>
  /\ UNCHANGED <<routeVars, uiVars>>

\* the request fails (connection refused, reset): fetch rejects, the catch
\* block returns the fallback; the timer is left armed
FetchRejects ==
  /\ pc = "pdf_fetch"
  /\ result' = Returned(PdfFallback(file))
  /\ pc' = "parsed"
  /\ UNCHANGED <<file, extractor, fetches, timer, aborted, response, payload,
                 workbook, results, userMessage, prompt>>
  /\ UNCHANGED <<routeVars, uiVars>>

\* the 30 s timer fires: controller.abort(); a request still waiting for
\* its response rejects with AbortError and the catch block returns the fallback
TimerFires ==
  /\ timer = "armed"
  /\ timer' = "fired"
  /\ aborted' = TRUE
  /\ IF pc = "pdf_fetch"
     THEN result' = Returned(PdfFallback(file)) /\ pc' = "parsed"
     ELSE UNCHANGED <<result, pc>>
  /\ UNCHANGED <<file, extractor, fetches, response, payload, workbook, results,
                 userMessage, prompt>>
  /\ UNCHANGED <<routeVars, uiVars>>

\* the body has been read (response.json() settles) and parsePDF returns
BodyRead ==
  /\ pc = "pdf_body"
  /\ \E data \in Bodies :
       /\ payload' = data
       /\ result' = Returned(PdfAfterBody(file, response.ok, data))
  /\ pc' = "parsed"
  /\ UNCHANGED <<file, extractor, fetches, timer, aborted, response,
                 workbook, results, userMessage, prompt>>
  /\ UNCHANGED <<routeVars, uiVars>>

\* generateAnalysisPrompt(parsedDoc, userMessage)
Compose ==
  /\ pc = "parsed"
  /\ \E um \in UserMessages :
       /\ userMessage' = um
       /\ prompt' = generateAnalysisPrompt(result.doc, um)
  /\ pc' = "composed"
  /\ UNCHANGED <<file, extractor, fetches, timer, aborted, response, payload,
                 workbook, results, result>>
  /\ UNCHANGED <<routeVars, uiVars>>

Next ==
  \/ ParseUnsupported
  \/ ParseExcel
  \/ ParseExcelFails
  \/ ParseCSV
  \/ ParseCSVFails
  \/ ParsePDFFetch
  \/ FetchResolves
  \/ FetchRejects
  \/ TimerFires
  \/ BodyRead
  \/ Compose

Spec == Init /\ [][Next]_vars

(***************************************************************************)
(* Properties.                                                             *)
(***************************************************************************)
\* the ways an extraction request fails: no response arrives (network
\* error, or abort by the timer), the response has a non-success status
\* (whatever its payload), or its payload cannot be read as a JSON object
C1_ServiceFailed ==
  \/ ~response.arrived
  \/ ~response.ok
  \/ payload.kind \in {"unreadable", "null"}

C2_Extension(name) ==
  IF \E i \in 1..Len(name) : CharAt(name, i) = "."
  THEN LET i == CHOOSE i \in 1..Len(name) :
                  /\ CharAt(name, i) = "."
                  /\ \A j \in (i + 1)..Len(name) : CharAt(name, j) # "."
       IN  ToLowerCase(SubSeq(name, i + 1, Len(name)))
  ELSE ToLowerCase(name)

\* C2: once parseDocument has dispatched, the extractor that ran is the one
\* the lower-cased extension selects (pdf: PDF extractor; xlsx, xls:
\* spreadsheet extractor; csv: delimited-text extractor); for every other
\* extension the call has failed with a message naming that extension, no
\* extractor was invoked and no outbound request was made.
C2_DispatchByExtension ==
  pc # "start" =>
    LET ext == C2_Extension(file.name)
    IN  /\ ext = "pdf" => extractor = "pdf"
        /\ ext \in {"xlsx", "xls"} => extractor = "excel"
        /\ ext = "csv" => extractor = "csv"
        /\ ext \notin {"pdf", "xlsx", "xls", "csv"} =>
             /\ result.status = "raised"
             /\ EndsWith(result.message, "Unsupported file type: " \o ext)
             /\ extractor = "none"
             /\ fetches = 0
             /\ timer = "unset"

\* C2 witness: an upper-case extension reached the PDF extractor, and
\* (second disjunct) an unsupported extension behind a dot failed
C2_Witness ==
  \/ file.name = "REPORT.Pdf" /\ extractor = "pdf" /\ fetches = 1
  \/ /\ file.name = "archive.pdf.zip" /\ pc = "failed"
     /\ result.message = "Failed to parse document: Unsupported file type: zip"

\* C3: every document parseDocument returns has a non-empty content.
C3_ContentNonEmpty ==
  result.status = "returned" => result.doc.content # ""

\* the PDF extractor returned from its catch block
PdfTookFallback ==
  /\ extractor = "pdf"
  /\ result.status = "returned"
  /\ C1_ServiceFailed

\* C4: for the document of the PDF fallback path hasContent is false, and
\* the prompt ends with the PDF-specific guidance, not the generic list.
C4_FallbackGetsPdfGuidance ==
  (pc = "composed" /\ PdfTookFallback) =>
    /\ ~hasContent(result.doc.content)
    /\ EndsWith(prompt, "3. Suggest alternative ways to get the information they need\n")
    /\ ~EndsWith(prompt, "what additional details might be needed\n")

\* String.prototype.indexOf, counting from 1: 0 when sub does not occur
IndexOf(s, sub) ==
  LET At(i) == SubSeq(s, i, i + Len(sub) - 1) = sub
      last  == Len(s) - Len(sub) + 1
  IN  IF \E i \in 1..last : At(i)
      THEN CHOOSE i \in 1..last : At(i) /\ \A j \in 1..(i - 1) : ~At(j)
      ELSE 0

ContentHeading == "\nDocument Content:\n"

\* the metadata block of the prompt: the text up to the content heading
PromptHead == SubSeq(prompt, 1, IndexOf(prompt, ContentHeading))

\* the text of the prompt that follows the content block
PromptTail ==
  LET at == IndexOf(prompt, ContentHeading)
  IN  SubSeq(prompt, at + Len(ContentHeading) + Len(result.doc.content) + 2,
             Len(prompt))

StartsWith(s, prefix) == Len(prefix) <= Len(s) /\ SubSeq(s, 1, Len(prefix)) = prefix

\* C5: in a composed prompt each optional metadata field has its line
\* exactly when the field is set in the document's metadata, whatever its
\* value (0 and the empty list included).
C5_LineIffPresent ==
  pc = "composed" =>
    LET m == result.doc.metadata
    IN  /\ "pageCount" \in m.present
             <=> Includes(PromptHead, "\n- Pages: " \o ToString(m.pageCount) \o "\n")
        /\ "sheetNames" \in m.present
             <=> Includes(PromptHead, "\n- Sheets: " \o Join(m.sheetNames, ", ") \o "\n")
        /\ "rowCount" \in m.present
             <=> Includes(PromptHead, "\n- Rows: " \o ToString(m.rowCount) \o "\n")
        /\ "columnCount" \in m.present
             <=> Includes(PromptHead, "\n- Columns: " \o ToString(m.columnCount) \o "\n")

\* C8: a composed prompt holds exactly one of the two instruction blocks
\* after the document content: the quoted question with the
\* answer-the-question instruction when the user message is given and
\* non-empty, the comprehensive-analysis instruction otherwise; and the
\* whole content stands right under the Document Content heading.
C8_OneInstructionBlock ==
  pc = "composed" =>
    LET asks   == userMessage.given /\ userMessage.text # ""
        quoted == "USER'S QUESTION: \"" \o userMessage.text \o "\"\n\n"
        answer == "Please answer the user's question using the document content above."
        comprehensive == "Please provide a comprehensive analysis."
        at     == IndexOf(prompt, ContentHeading)
        tail   == PromptTail
    IN  /\ at > 0
        /\ SubSeq(prompt, at, at + Len(ContentHeading) + Len(result.doc.content) + 1)
             = ContentHeading \o result.doc.content \o "\n\n"
        /\ asks => /\ StartsWith(tail, quoted \o answer)
                   /\ ~Includes(tail, comprehensive)
        /\ ~asks => /\ Includes(tail, comprehensive)
                    /\ ~Includes(tail, "USER'S QUESTION")
                    /\ ~Includes(tail, answer)

\* C8 witness: a prompt composed for a question, and (second disjunct) one
\* composed for an explicitly empty message
C8_Witness ==
  /\ pc = "composed"
  /\ \/ userMessage = Message("What was the revenue in \"Q3\"?")
     \/ userMessage = Message("") /\ result.doc.content = ""

RECURSIVE Ascending(_)
\* the elements of a finite set of numbers in ascending order
Ascending(S) ==
  IF S = {} THEN <<>>
  ELSE LET m == CHOOSE x \in S : \A y \in S : x <= y
       IN  <<m>> \o Ascending(S \ {m})

\* the lines of a text: s.split('\n')
Lines(s) ==
  LET breaks == Ascending({i \in 1..Len(s) : CharAt(s, i) = "\n"})
      n      == Len(breaks)
  IN  [k \in 1..(n + 1) |->
         SubSeq(s, IF k = 1 THEN 1 ELSE breaks[k - 1] + 1,
                   IF k = n + 1 THEN Len(s) ELSE breaks[k] - 1)]

IsRowLine(line)    == StartsWith(line, "Row ")
IsMoreLine(line)   == StartsWith(line, "... and ")
IsHeaderLine(line) == StartsWith(line, "=== Sheet: ")

\* lines compared up to the white space at their ends, which content.trim()
\* removes from the last line
Trimmed(lines) == [i \in 1..Len(lines) |-> Trim(lines[i])]

RECURSIVE Flatten(_)
Flatten(seqs) == IF Len(seqs) = 0 THEN <<>> ELSE seqs[1] \o Flatten(Tail(seqs))

\* a row survives when one of its cells is neither undefined, null nor ''
C6_Survives(row) ==
  \E i \in 1..Len(row) :
     \/ row[i].t = "number"
     \/ row[i].t = "string" /\ row[i].s # ""

\* the surviving rows after the first row of a sheet
C6_Surviving(sheet) ==
  IF Len(sheet.rows) = 0 THEN <<>>
  ELSE SelectSeq(SubSeq(sheet.rows, 2, Len(sheet.rows)), C6_Survives)

C6_RowLines(sheet) ==
  LET rows == C6_Surviving(sheet)
      n    == Len(rows)
  IN  [i \in 1..(IF n < 10 THEN n ELSE 10) |->
         "Row " \o ToString(i) \o ": " \o JoinCells(rows[i], " | ")]

C6_MoreLines(sheet) ==
  LET n == Len(C6_Surviving(sheet))
  IN  IF n > 10 THEN <<"... and " \o ToString(n - 10) \o " more rows">> ELSE <<>>

RECURSIVE C6_Sum(_)
C6_Sum(ns) == IF Len(ns) = 0 THEN 0 ELSE ns[1] + C6_Sum(Tail(ns))

\* C6: the content the spreadsheet extractor returns holds, sheet after
\* sheet, a Row line for each of the first min(10, n) surviving data rows
\* of the sheet and for no other row, numbered 1..min(10, n); a
\* '... and (n - 10) more rows' line for exactly the sheets with n > 10;
\* rowCount is the sum of n over the sheets, sheetNames lists every sheet
\* in order, and a sheet without rows contributes its section header only.
C6_SheetPreview ==
  (pc = "parsed" /\ extractor = "excel") =>
    LET lines   == Lines(result.doc.content)
        m       == result.doc.metadata
        headers == Ascending({j \in 1..Len(lines) : IsHeaderLine(lines[j])})
    IN  /\ Trimmed(SelectSeq(lines, IsRowLine))
             = Trimmed(Flatten([k \in 1..Len(workbook) |-> C6_RowLines(workbook[k])]))
        /\ SelectSeq(lines, IsMoreLine)
             = Flatten([k \in 1..Len(workbook) |-> C6_MoreLines(workbook[k])])
        /\ m.rowCount
             = C6_Sum([k \in 1..Len(workbook) |-> Len(C6_Surviving(workbook[k]))])
        /\ m.sheetNames = [k \in 1..Len(workbook) |-> workbook[k].name]
        /\ Len(headers) = Len(workbook)
        /\ \A k \in 1..Len(workbook) :
             /\ lines[headers[k]] = "=== Sheet: " \o workbook[k].name \o " ==="
             /\ Len(workbook[k].rows) = 0 =>
                  \A j \in (headers[k] + 1)..
                           (IF k < Len(workbook) THEN headers[k + 1] - 1 ELSE Len(lines)) :
                     lines[j] = ""

\* C6 witness: two sheets, the first with 15 rows after its header row, one
\* of them blank, the second without rows
C6_Witness ==
  /\ pc = "parsed" /\ extractor = "excel"
  /\ Len(workbook) = 2
  /\ Len(workbook[1].rows) = 16 /\ Len(C6_Surviving(workbook[1])) = 14
  /\ Len(workbook[2].rows) = 0
  /\ result.doc.metadata.rowCount = 14
  /\ Len(result.doc.metadata.sheetNames) = 2
  /\ Includes(result.doc.content, "... and 4 more rows")

\* the line of record i: the values of the first record's fields, '' for
\* a field the record lacks
C7_RowLine(i) ==
  "Row " \o ToString(i) \o ": " \o
  Join([j \in 1..Len(results[1]) |->
          IF \E q \in 1..Len(results[i]) : results[i][q][1] = results[1][j][1]
          THEN results[i][CHOOSE q \in 1..Len(results[i]) :
                            results[i][q][1] = results[1][j][1]][2]
          ELSE ""], " | ")

\* C7: for N parsed records the content the delimited-text extractor
\* returns holds a Row line for exactly the records 1..min(20, N), a
\* '... and (N - 20) more rows' line exactly when N > 20; rowCount = N and
\* columnCount is the number of fields of the first record, 0 when N = 0.
C7_CsvPreview ==
  (pc = "parsed" /\ extractor = "csv") =>
    LET lines == Lines(result.doc.content)
        m     == result.doc.metadata
        N     == Len(results)
    IN  /\ Trimmed(SelectSeq(lines, IsRowLine))
             = Trimmed([i \in 1..(IF N < 20 THEN N ELSE 20) |-> C7_RowLine(i)])
        /\ SelectSeq(lines, IsMoreLine)
             = IF N > 20 THEN <<"... and " \o ToString(N - 20) \o " more rows">>
               ELSE <<>>
        /\ m.rowCount = N
        /\ m.columnCount = IF N = 0 THEN 0 ELSE Len(results[1])

\* C7 witness: 25 records under the headers a, b, c
C7_Witness ==
  /\ pc = "parsed" /\ extractor = "csv"
  /\ Len(results) = 25
  /\ Keys(results[1]) = <<"a", "b", "c">>
  /\ result.doc.metadata.rowCount = 25
  /\ result.doc.metadata.columnCount = 3
  /\ Includes(result.doc.content, "... and 5 more rows")
  /\ Includes(result.doc.content, "Row 20: ")
  /\ ~Includes(result.doc.content, "Row 21: ")

\* C9: the metadata of every document parseDocument returns carries the
\* name, type and size of the input file descriptor.
C9_MetadataCopied ==
  result.status = "returned" =>
    /\ result.doc.metadata.fileName = file.name
    /\ result.doc.metadata.fileType = file.type
    /\ result.doc.metadata.fileSize = file.size

\* C9 witness: the PDF fallback returned after the timer aborted the request
C9_Witness ==
  /\ result.status = "returned"
  /\ extractor = "pdf" /\ aborted /\ ~response.arrived
  /\ result.doc.metadata.fileName = "REPORT.Pdf"

\* C10: while a PDF extraction is pending (the request is in flight or the
\* response body is being read) the abort timer is armed, so the
\* extraction cannot be left pending.
C10_TimerEffectiveUntilRead ==
  pc \in {"pdf_fetch", "pdf_body"} => timer = "armed"

(***************************************************************************)
(* The chat request handler, POST of app/api/chat. It calls parseDocument  *)
(* (the steps above, started by setting pc to "start"), composes the       *)
(* prompt and calls the text-completion service.                           *)
(***************************************************************************)
\* formData.get('message'): null (NoMessage) or a string
RequestMessages == {NoMessage, Message(""), Message("What was the revenue in \"Q3\"?")}

Requests == [message : RequestMessages, hasFile : BOOLEAN]

\* the descriptors of the uploaded files of the requests
RouteFiles ==
  [name : {"report.pdf", "data.xlsx", "rows.csv", "notes.txt"},
   type : {"application/pdf"}, size : {2500}]

\* the value of `file` while the request carries none
NoFile == [name |-> "", type |-> "", size |-> 0]

\* replies of the text-completion service
Replies == {"The revenue was 4% up."}

\* message || '' and message || undefined
MessageText(m)   == IF Truthy(m) THEN m.text ELSE ""
MessageOrNone(m) == IF Truthy(m) THEN m ELSE NoMessage

RouteInit ==
  /\ request \in Requests
  /\ file \in (IF request.hasFile THEN RouteFiles ELSE {NoFile})
  /\ rpc = "received"
  /\ http = NoAnswer
  /\ completions = 0
  /\ pc = "idle"
  /\ extractor = "none"
  /\ fetches = 0
  /\ timer = "unset"
  /\ aborted = FALSE
  /\ response = NoResponse
  /\ payload = NoBody
  /\ workbook = <<>>
  /\ results = <<>>
  /\ result = Running
  /\ userMessage = NoMessage
  /\ prompt = ""
  /\ UiIdle

\* request.formData() rejects: the outer catch answers 500
RouteFormDataFails ==
  /\ rpc = "received"
  /\ http' = Answer(500, "Failed to generate response", "")
  /\ rpc' = "done"
  /\ UNCHANGED <<request, completions, parserVars, uiVars>>

\* if (!message && !file) return 400
RouteRejectsEmpty ==
  /\ rpc = "received"
  /\ ~Truthy(request.message) /\ ~request.hasFile
  /\ http' = Answer(400, "Message or file is required", "")
  /\ rpc' = "done"
  /\ UNCHANGED <<request, completions, parserVars, uiVars>>

\* if (file): the bytes are read and parseDocument is called
RouteStartsParse ==
  /\ rpc = "received"
  /\ request.hasFile
  /\ prompt' = MessageText(request.message)
  /\ pc' = "start"
  /\ rpc' = "parsing"
  /\ UNCHANGED <<request, http, completions, uiVars,
                 file, extractor, fetches, timer, aborted, response, payload,
                 workbook, results, result, userMessage>>

\* if (file): file.arrayBuffer() rejects, the inner catch answers 400
RouteBufferFails ==
  /\ rpc = "received"
  /\ request.hasFile
  /\ \E msg \in LibraryErrors :
       http' = Answer(400, "Failed to parse document: " \o msg, "")
  /\ prompt' = MessageText(request.message)
  /\ rpc' = "done"
  /\ UNCHANGED <<request, completions, uiVars,
                 file, pc, extractor, fetches, timer, aborted, response, payload,
                 workbook, results, result, userMessage>>

\* the inner catch without its return statement: the handler goes on to
\* the text-completion call
RouteParseFailedGoesOn ==
  /\ rpc = "parsing"
  /\ pc = "failed"
  /\ completions' = completions + 1
  /\ rpc' = "completing"
  /\ UNCHANGED <<request, http, parserVars, uiVars>>

\* parseDocument rejected: the inner catch answers 400 and returns
RouteParseFailed ==
  /\ rpc = "parsing"
  /\ pc = "failed"
  /\ http' = Answer(400, "Failed to parse document: " \o result.message, "")
  /\ rpc' = "done"
  /\ UNCHANGED <<request, completions, parserVars, uiVars>>

\* parseDocument resolved: generateAnalysisPrompt(parsedDoc, message ||
\* undefined), then generateText is called with the prompt
RouteComposes ==
  /\ rpc = "parsing"
  /\ pc = "parsed"
  /\ userMessage' = MessageOrNone(request.message)
  /\ prompt' = generateAnalysisPrompt(result.doc, MessageOrNone(request.message))
  /\ pc' = "composed"
  /\ completions' = completions + 1
  /\ rpc' = "completing"
  /\ UNCHANGED <<request, http, uiVars,
                 file, extractor, fetches, timer, aborted, response, payload,
                 workbook, results, result>>

\* else if (message): the message is the prompt, generateText is called
RouteMessageOnly ==
  /\ rpc = "received"
  /\ ~request.hasFile /\ Truthy(request.message)
  /\ prompt' = request.message.text
  /\ completions' = completions + 1
  /\ rpc' = "completing"
  /\ UNCHANGED <<request, http, uiVars,
                 file, pc, extractor, fetches, timer, aborted, response, payload,
                 workbook, results, result, userMessage>>

\* generateText resolves: 200 with the reply
CompletionReturns ==
  /\ rpc = "completing"
  /\ \E text \in Replies : http' = Answer(200, "", text)
  /\ rpc' = "done"
  /\ UNCHANGED <<request, completions, parserVars, uiVars>>

\* generateText rejects: the outer catch answers 500
CompletionFails ==
  /\ rpc = "completing"
  /\ http' = Answer(500, "Failed to generate response", "")
  /\ rpc' = "done"
  /\ UNCHANGED <<request, completions, parserVars, uiVars>>

RouteNext ==
  \/ RouteFormDataFails
  \/ RouteRejectsEmpty
  \/ RouteStartsParse
  \/ RouteBufferFails
  \/ RouteParseFailed
  \/ RouteComposes
  \/ RouteMessageOnly
  \/ CompletionReturns
  \/ CompletionFails
  \/ ParseUnsupported
  \/ ParseExcel
  \/ ParseExcelFails
  \/ ParseCSV
  \/ ParseCSVFails
  \/ ParsePDFFetch
  \/ FetchResolves
  \/ FetchRejects
  \/ TimerFires
  \/ BodyRead

RouteSpec == RouteInit /\ [][RouteNext]_vars

\* C11: in the chat request handler the text-completion service is called
\* at most once, and with a file only after parseDocument has returned and
\* the prompt has been composed from its document; once parseDocument has
\* failed the service is never called and the handler's answer is 400 with
\* one error message; a request with neither message nor file is answered
\* 400 with no parsing started and no completion call.
C11_ParseComposeComplete ==
  /\ completions <= 1
  /\ (completions = 1 /\ request.hasFile) =>
       /\ result.status = "returned"
       /\ pc = "composed"
       /\ IndexOf(prompt, ContentHeading \o result.doc.content \o "\n\n") > 0
  /\ result.status = "raised" =>
       /\ completions = 0
       /\ rpc \in {"parsing", "done"}
       /\ rpc = "done" =>
            /\ http.status = 400
            /\ http.error = "Failed to parse document: " \o result.message
            /\ http.response = ""
  /\ (~request.hasFile /\ (~request.message.given \/ request.message.text = "")) =>
       /\ completions = 0
       /\ pc = "idle" /\ extractor = "none" /\ fetches = 0 /\ result.status = "none"
       /\ rpc = "done" => http.status \in {400, 500}
       /\ http.status # 200

\* C11 witness: an unsupported file sent with a question was answered 400
\* without a completion call
C11_Witness ==
  /\ rpc = "done"
  /\ request.hasFile /\ request.message.given /\ request.message.text # ""
  /\ file.name = "notes.txt"
  /\ result.status = "raised"
  /\ http.status = 400
  /\ completions = 0

(***************************************************************************)
(* The chat component, ChatAssistant. selectedFile holds the name of the   *)
(* selected file, "" for null. calls holds the handleSubmit invocations    *)
(* that wait for their request: "fetching" while fetch is pending,         *)
(* "reading" while response.json() is pending. lastSubmit records how the  *)
(* latest handleSubmit call left its guard.                                *)
(***************************************************************************)
\* the number of accepted submits explored
MaxExchanges == 2

\* message.text; an absent text behaves as ""
Texts == {"", "   ", "hello"}

UploadNames == {"report.pdf", "rows.csv"}

ErrorReply == "Sorry, I encountered an error. Please try again."

ChatMessage(role, content, fileName) == [role |-> role, content |-> content, file |-> fileName]

\* message.text || (selectedFile ? `Uploaded ${selectedFile.name}` : "")
UserContent(text, fileName) == IF text # "" THEN text ELSE IF fileName # "" THEN "Uploaded " \o fileName ELSE ""

\* the guard of handleSubmit without its isLoading test
SubmitIgnoredWhenBlank(text) == Trim(text) = "" /\ selectedFile = ""

\* (!message.text?.trim() && !selectedFile) || isLoading
SubmitIgnored(text) == (Trim(text) = "" /\ selectedFile = "") \/ isLoading

RemoveAt(seq, i) == SubSeq(seq, 1, i - 1) \o SubSeq(seq, i + 1, Len(seq))

\* the lines after the try statement, with the assistant message appended
Settle(i, content) ==
  /\ messages' = Append(messages, ChatMessage("assistant", content, ""))
  /\ isLoading' = FALSE
  /\ selectedFile' = ""
  /\ showFileUpload' = FALSE
  /\ calls' = RemoveAt(calls, i)
  /\ UNCHANGED lastSubmit

UiInit ==
  /\ file = NoFile
  /\ pc = "idle"
  /\ extractor = "none"
  /\ fetches = 0
  /\ timer = "unset"
  /\ aborted = FALSE
  /\ response = NoResponse
  /\ payload = NoBody
  /\ workbook = <<>>
  /\ results = <<>>
  /\ result = Running
  /\ userMessage = NoMessage
  /\ prompt = ""
  /\ RouteIdle
  /\ UiIdle

\* handleSubmit up to its first await
Submit ==
  /\ Len(messages) < 2 * MaxExchanges
  /\ \E text \in Texts :
       IF SubmitIgnored(text)
       THEN /\ lastSubmit' = "ignored"
            /\ UNCHANGED <<messages, isLoading, selectedFile, showFileUpload, calls>>
       ELSE /\ messages' = Append(messages, ChatMessage("user", UserContent(text, selectedFile), selectedFile))
            /\ isLoading' = TRUE
            /\ calls' = Append(calls, [stage |-> "fetching", ok |-> FALSE])
            /\ lastSubmit' = "accepted"
            /\ UNCHANGED <<selectedFile, showFileUpload>>
  /\ UNCHANGED <<parserVars, routeVars>>

\* fetch resolves with a success or an error status
ChatFetchResolves ==
  /\ \E i \in 1..Len(calls), ok \in BOOLEAN :
       /\ calls[i].stage = "fetching"
       /\ calls' = [calls EXCEPT ![i] = [stage |-> "reading", ok |-> ok]]
  /\ UNCHANGED <<messages, isLoading, selectedFile, showFileUpload, lastSubmit>>
  /\ UNCHANGED <<parserVars, routeVars>>

\* fetch rejects: catch, finally and the lines after them
ChatFetchRejects ==
  /\ \E i \in 1..Len(calls) :
       /\ calls[i].stage = "fetching"
       /\ Settle(i, ErrorReply)
  /\ UNCHANGED <<parserVars, routeVars>>

\* response.json() resolves or rejects, up to the end of handleSubmit
ChatBodyRead ==
  /\ \E i \in 1..Len(calls), parsed \in BOOLEAN, reply \in Replies :
       /\ calls[i].stage = "reading"
       /\ Settle(i, IF parsed /\ calls[i].ok THEN reply ELSE ErrorReply)
  /\ UNCHANGED <<parserVars, routeVars>>

\* handleFileSelect, called by the drop zone of the upload panel
SelectFile ==
  /\ showFileUpload
  /\ selectedFile = ""
  /\ \E name \in UploadNames : selectedFile' = name
  /\ UNCHANGED <<messages, isLoading, showFileUpload, calls, lastSubmit>>
  /\ UNCHANGED <<parserVars, routeVars>>

\* handleFileRemove, called by the remove button of the upload panel
RemoveFile ==
  /\ showFileUpload
  /\ selectedFile # ""
  /\ selectedFile' = ""
  /\ UNCHANGED <<messages, isLoading, showFileUpload, calls, lastSubmit>>
  /\ UNCHANGED <<parserVars, routeVars>>

\* the upload button: setShowFileUpload(!showFileUpload)
ToggleUpload ==
  /\ showFileUpload' = ~showFileUpload
  /\ UNCHANGED <<messages, isLoading, selectedFile, calls, lastSubmit>>
  /\ UNCHANGED <<parserVars, routeVars>>

UiNext ==
  \/ Submit
  \/ ChatFetchResolves
  \/ ChatFetchRejects
  \/ ChatBodyRead
  \/ SelectFile
  \/ RemoveFile
  \/ ToggleUpload

UiSpec == UiInit /\ [][UiNext]_vars

\* every request of the component settles: fetch resolves or rejects, and
\* the body of a response is read or its reading fails
UiFairSpec == UiSpec /\ WF_vars(ChatFetchResolves \/ ChatFetchRejects) /\ WF_vars(ChatBodyRead)

C12_LastMessage == messages'[Len(messages')]

C12_OneInFlight ==
  /\ Len(calls) <= 1
  /\ isLoading <=> calls # <<>>
  /\ isLoading <=> Len(messages) % 2 = 1
  /\ \A i \in 1..Len(messages) :
       messages[i].role = IF i % 2 = 1 THEN "user" ELSE "assistant"

C12_AcceptedSubmit ==
  /\ ~isLoading /\ isLoading'
  /\ lastSubmit' = "accepted"
  /\ messages' = Append(messages, C12_LastMessage)
  /\ C12_LastMessage.role = "user"
  /\ Trim(C12_LastMessage.content) # "" \/ selectedFile # ""
  /\ Len(calls') = Len(calls) + 1

C12_Settled ==
  /\ isLoading /\ ~isLoading'
  /\ messages' = Append(messages, C12_LastMessage)
  /\ C12_LastMessage.role = "assistant"
  /\ calls' = <<>>
  /\ selectedFile' = "" /\ ~showFileUpload'

C12_Step ==
  /\ (messages' # messages \/ isLoading' # isLoading \/ calls' # calls) =>
       \/ C12_AcceptedSubmit
       \/ C12_Settled
       \/ (UNCHANGED <<messages, isLoading>> /\ Len(calls') = Len(calls))
  /\ (lastSubmit # "ignored" /\ lastSubmit' = "ignored") => UNCHANGED <<messages, isLoading, selectedFile, showFileUpload, calls>>

====
